---- MODULE Spec2Model ----
(***************************************************************************)
(* A model of the HR controller (src/api/controllers/hr.controller.js):    *)
(* the role-gated employee / compensation / leave handlers over a document *)
(* store, and the attendance period resolution.                            *)
(*                                                                         *)
(* Each handler is an operator from (store, request) to (store, response), *)
(* translated statement by statement; an action applies one handler to one *)
(* request.  A JavaScript value is a tagged pair, so that "" and 0 are     *)
(* different values that are both falsy; an undefined property is a name   *)
(* that is not in the DOMAIN of the object.                                *)
(***************************************************************************)
EXTENDS Integers, Sequences, FiniteSets, TLC

VARIABLES users, ctcs, leaves, nextId, req, resp, now, attendance, inflight

vars == <<users, ctcs, leaves, nextId, req, resp, now, attendance, inflight>>

(***************************************************************************)
(* Bounds of the model.                                                    *)
(***************************************************************************)
MaxUsers == 2
MaxLeaves == 1
MaxHoles == 2
MaxEntries == 1
NumYears == 2
MaxInflight == 2
MaxHires == 1

(***************************************************************************)
(* JavaScript values.                                                      *)
(***************************************************************************)
Str(s) == <<"string", s>>
Num(n) == <<"number", n>>

\* !v for a defined value v: the empty string and the number 0 are falsy.
Falsy(v) == v = Str("") \/ v = Num(0)

\* !req.body[field]
NotProvided(body, field) == field \notin DOMAIN body \/ Falsy(body[field])

\* An object literal { a, b, c } of destructured properties, as the store
\* keeps it: a property whose value is undefined is not stored.
Pick(body, fields) == [f \in (fields \cap DOMAIN body) |-> body[f]]

\* ids: a well-formed ObjectId is a positive number; NoId is an absent
\* parameter and BadId a string that is no ObjectId.
NoId == 0
BadId == -1
isValidObjectId(id) == id > 0

NoBody == [f \in {} |-> Str("")]

(***************************************************************************)
(* The store, as the handlers see it.                                      *)
(***************************************************************************)
DB == [users |-> users, ctcs |-> ctcs, leaves |-> leaves, nextId |-> nextId]

Out(db, res) == [db |-> db, res |-> res]

\* next(errorHandler(statusCode, message))
errorHandler(statusCode, message) == [status |-> statusCode, message |-> message]

\* A role check that lets every signed-in role through.
PrivilegedAnyStaff(role) == role \in {"hr", "admin", "employee"}

\* ["hr", "admin"].includes(role)
Privileged(role) == role \in {"hr", "admin"}

\* .select("-password")
WithoutPassword(doc) == [f \in DOMAIN doc \ {"password"} |-> doc[f]]

\* A stored document as a query returns it, with its _id.
WithId(id, doc) == doc @@ [_id |-> id]

(***************************************************************************)
(* Store primitives (the model's calls of User and employeeCTCModel).      *)
(***************************************************************************)
\* The User schema's unique index on email: another document holds it.
EmailTaken(us, email, self) == \E u \in DOMAIN us : u # self /\ us[u].email = email

\* The User schema's defaults at creation.
UserDefaults == [role |-> Str("employee"), totalPerformance |-> Num(0)]

\* User.create(doc): a fresh _id; rejects on a duplicate email.
UserCreate(db, doc) ==
  IF "email" \in DOMAIN doc /\ EmailTaken(db.users, doc.email, NoId)
  THEN [ok |-> FALSE, db |-> db, id |-> NoId]
  ELSE [ok |-> TRUE,
        db |-> [db EXCEPT !.users = (db.nextId :> (doc @@ UserDefaults)) @@ db.users,
                          !.nextId = db.nextId + 1],
        id |-> db.nextId]

\* User.findByIdAndUpdate(id, set, {new: true, runValidators: true}): no
\* upsert, so an id that matches nothing changes nothing and yields null.
UserFindByIdAndUpdate(db, id, set) ==
  IF id \notin DOMAIN db.users
  THEN [ok |-> TRUE, found |-> FALSE, db |-> db]
  ELSE IF "email" \in DOMAIN set /\ EmailTaken(db.users, set.email, id)
  THEN [ok |-> FALSE, found |-> TRUE, db |-> db]
  ELSE [ok |-> TRUE, found |-> TRUE,
        db |-> [db EXCEPT !.users = [db.users EXCEPT ![id] = set @@ db.users[id]]]]

\* A lookup in the place of the delete: User.findById(id).
UserFindByIdOnly(db, id) == [found |-> id \in DOMAIN db.users, db |-> db]

\* User.findByIdAndDelete(id)
UserFindByIdAndDelete(db, id) ==
  IF id \notin DOMAIN db.users
  THEN [found |-> FALSE, db |-> db]
  ELSE [found |-> TRUE,
        db |-> [db EXCEPT !.users = [u \in DOMAIN db.users \ {id} |-> db.users[u]]]]

\* The compensation fields of a request, as both handlers nest them.
CtcFields(body) ==
  [annualCTC |-> body.annualCTC,
   monthlyInHand |-> body.monthlyInHand,
   otherComponents |->
     [allowances |-> [housingAllowance |-> body.housingAllowance,
                      transportAllowance |-> body.transportAllowance,
                      mealAllowance |-> body.mealAllowance],
      bonuses |-> [performanceBonus |-> body.performanceBonus,
                   yearEndBonus |-> body.yearEndBonus],
      deductions |-> [tax |-> body.tax,
                      healthInsurance |-> body.healthInsurance,
                      providentFund |-> body.providentFund]]]

\* The employeeCTC collection is kept grouped by employeeId, each group in
\* insertion order: every query of the controller filters on employeeId.
CtcsOf(cs, id) == IF id \in DOMAIN cs THEN cs[id] ELSE << >>

CtcInsert(cs, doc) ==
  (doc.employeeId :> Append(CtcsOf(cs, doc.employeeId), doc)) @@ cs

\* employeeCTCModel.create(doc)
CtcCreate(db, doc) == [db EXCEPT !.ctcs = CtcInsert(db.ctcs, doc)]

\* The query half of findOneAndUpdate({employeeId: id}, ...): the position of
\* the first matching document among those of `id`, 0 when none matches.
CtcMatch(cs, id) == IF Len(CtcsOf(cs, id)) > 0 THEN 1 ELSE 0

\* The write half without {upsert: true}: no match, no write.
CtcUpdateOnly(cs, i, id, set) ==
  IF i = 0 THEN cs ELSE [cs EXCEPT ![id] = [@ EXCEPT ![i] = set @@ @]]

\* The write half of findOneAndUpdate(..., set, {new: true, upsert: true}):
\* $set on the matched document, or the insert of {employeeId: id} + set.
CtcUpsertWrite(cs, i, id, set) ==
  IF i = 0
  THEN CtcInsert(cs, set @@ [employeeId |-> id])
  ELSE [cs EXCEPT ![id] = [@ EXCEPT ![i] = set @@ @]]

\* The document findOneAndUpdate returns with {new: true}.
CtcWritten(cs, i, id) == IF i = 0 THEN cs[id][Len(cs[id])] ELSE cs[id][i]

(***************************************************************************)
(* Employee Directory handlers.                                            *)
(***************************************************************************)
RECURSIVE SortByPerformance(_, _)
\* .sort({ totalPerformance: -1 }) over the documents with the ids in `ids`.
SortByPerformance(us, ids) ==
  IF ids = {} THEN << >>
  ELSE LET top == CHOOSE u \in ids :
                    \A v \in ids :
                      \/ us[u].totalPerformance[2] > us[v].totalPerformance[2]
                      \/ /\ us[u].totalPerformance[2] = us[v].totalPerformance[2]
                         /\ u <= v
       IN <<WithoutPassword(WithId(top, us[top]))>> \o SortByPerformance(us, ids \ {top})

getEmployees(db, rq) ==
  IF ~Privileged(rq.role)
  THEN Out(db, [status |-> 403, message |-> "You are not allowed to access this API."])
  ELSE IF rq.fault = "first"
  THEN Out(db, errorHandler(500, "store error"))
  ELSE LET emp == {u \in DOMAIN db.users : db.users[u].role = Str("employee")}
       IN Out(db, [status |-> 200,
                   totalEmployees |-> Cardinality(emp),
                   employees |-> SortByPerformance(db.users, emp)])

getEmployee(db, rq) ==
  IF ~Privileged(rq.role)
  THEN Out(db, [status |-> 403, message |-> "Access denied."])
  ELSE IF rq.id = NoId \/ ~isValidObjectId(rq.id)
  THEN Out(db, errorHandler(400, IF rq.id # NoId THEN "Invalid Employee ID."
                                 ELSE "Employee ID is required."))
  ELSE IF rq.fault = "first"
  THEN Out(db, errorHandler(500, "store error"))
  ELSE IF rq.id \notin DOMAIN db.users
  THEN Out(db, errorHandler(404, "Employee not found."))
  ELSE Out(db, [status |-> 200, body |-> WithId(rq.id, db.users[rq.id])])

AddRequired ==
  <<"firstName", "lastName", "email", "position", "annualCTC", "monthlyInHand",
    "housingAllowance", "transportAllowance", "mealAllowance", "performanceBonus",
    "yearEndBonus", "tax", "healthInsurance", "providentFund">>

EditRequired ==
  <<"firstName", "lastName", "email", "position", "role", "annualCTC",
    "monthlyInHand", "housingAllowance", "transportAllowance", "mealAllowance",
    "performanceBonus", "yearEndBonus", "tax", "healthInsurance", "providentFund">>

\* required.filter((field) => !req.body[field])
missingFields(required, body) == SelectSeq(required, LAMBDA f : NotProvided(body, f))

\* bcrypt.hash(password, 10): one way, and it rejects what is not a string.
CanHash(body) == "password" \in DOMAIN body /\ body.password[1] = "string"
Hash(v) == <<"bcrypt", v[2]>>

\* The document of User.create in addEmployee.
AddUserDoc(body) ==
  Pick(body, {"firstName", "lastName", "email", "position", "joiningDate"})
  @@ [password |-> Hash(body.password)]

\* The document of employeeCTCModel.create in addEmployee.
AddCtcDoc(body, id) ==
  CtcFields(body) @@ [employeeId |-> id]
  @@ (IF "joiningDate" \in DOMAIN body
      THEN [effectiveDate |-> body.joiningDate] ELSE NoBody)

\* The 201 body of addEmployee.
AddCreated(id, user, employeeCTC) ==
  [status |-> 201,
   message |-> "Employee added successfully!",
   user |-> [id |-> id, firstName |-> user.firstName,
             lastName |-> user.lastName, email |-> user.email,
             role |-> user.role, position |-> user.position],
   employeeCTC |-> employeeCTC]

\* The $set of User.findByIdAndUpdate in editEmployee.
EditUserSet(body) ==
  Pick(body, {"firstName", "lastName", "email", "role", "position", "joiningDate"})

addEmployee(db, rq) ==
  LET body == rq.body
      missing == missingFields(AddRequired, body)
  IN
  IF ~Privileged(rq.role)
  THEN Out(db, errorHandler(403, "You do not have permission to access this API"))
  ELSE IF Len(missing) # 0
  THEN Out(db, [status |-> 400,
                message |-> "All fields are required! Missing fields: ",
                missing |-> missing])
  ELSE IF ~CanHash(body) \/ rq.fault = "first"
  THEN Out(db, errorHandler(500, "Internal Server Error"))
  ELSE
  LET created == UserCreate(db, AddUserDoc(body))
  IN
  IF ~created.ok
  THEN Out(db, errorHandler(500, "Internal Server Error"))
  ELSE IF rq.fault = "second"
  THEN Out(created.db, errorHandler(500, "Internal Server Error"))
  ELSE
  LET employeeCTC == AddCtcDoc(body, created.id)
  IN Out(CtcCreate(created.db, employeeCTC),
         AddCreated(created.id, created.db.users[created.id], employeeCTC))

editEmployee(db, rq) ==
  LET body == rq.body
      missing == missingFields(EditRequired, body)
  IN
  IF ~Privileged(rq.role)
  THEN Out(db, errorHandler(403, "Unauthorized access"))
  ELSE IF ~isValidObjectId(rq.id)
  THEN Out(db, errorHandler(400, "Invalid User ID"))
  ELSE IF Len(missing) # 0
  THEN Out(db, [status |-> 400, message |-> "Missing fields: ", missing |-> missing])
  ELSE
  \* Promise.all: both operations are issued whatever the other's outcome.
  LET i == CtcMatch(db.ctcs, rq.id)
      upd == IF rq.fault = "first"
             THEN [ok |-> FALSE, found |-> FALSE, db |-> db]
             ELSE UserFindByIdAndUpdate(db, rq.id, EditUserSet(body))
      cs == IF rq.fault = "second"
            THEN db.ctcs
            ELSE CtcUpsertWrite(db.ctcs, i, rq.id, CtcFields(body))
      db2 == [upd.db EXCEPT !.ctcs = cs]
  IN
  IF ~upd.ok \/ rq.fault = "second"
  THEN Out(db2, errorHandler(500, "Internal Server Error"))
  ELSE IF ~upd.found
  THEN Out(db2, errorHandler(404, "Employee not found"))
  ELSE Out(db2, [status |-> 200,
                 message |-> "Employee data updated successfully",
                 data |-> [user |-> WithId(rq.id, db2.users[rq.id]),
                           ctc |-> CtcWritten(cs, i, rq.id)]])

deleteEmployee(db, rq) ==
  IF ~Privileged(rq.role)
  THEN Out(db, errorHandler(403, "You don't have permission to access this API."))
  ELSE IF rq.id = NoId \/ ~isValidObjectId(rq.id)
  THEN Out(db, errorHandler(400, "A valid Employee ID is required."))
  ELSE IF rq.fault = "first"
  THEN Out(db, errorHandler(500, "store error"))
  ELSE
  LET del == UserFindByIdAndDelete(db, rq.id)
  IN
  IF ~del.found
  THEN Out(db, errorHandler(404, "Employee does not exist or may have already been deleted."))
  ELSE Out(del.db,
           [status |-> 200, success |-> TRUE,
            message |-> <<Str("Employee "), db.users[rq.id].firstName, Str(" "),
                          db.users[rq.id].lastName, Str(" deleted successfully!")>>])

(***************************************************************************)
(* Leave Approval Workflow handlers.                                       *)
(***************************************************************************)
\* .populate("employeeId", "-password"): null when the employee is gone.
Populate(db, leave) ==
  IF leave.employeeId \in DOMAIN db.users
  THEN [leave EXCEPT !.employeeId =
          <<WithoutPassword(WithId(leave.employeeId, db.users[leave.employeeId]))>>]
  ELSE [leave EXCEPT !.employeeId = << >>]

getAllLeaveApplications(db, rq) ==
  IF ~Privileged(rq.role)
  THEN Out(db, errorHandler(403, "You don't have permission to access this API."))
  ELSE IF rq.fault = "first"
  THEN Out(db, errorHandler(500, "Internal server error"))
  ELSE Out(db, [status |-> 200,
                body |-> [l \in DOMAIN db.leaves |-> Populate(db, db.leaves[l])]])

\* hrComments || ""
CommentsOrEmpty(body) ==
  IF NotProvided(body, "hrComments") THEN Str("") ELSE body.hrComments

\* A validation that only asks for some status.
InvalidStatusLoose(body) == "status" \notin DOMAIN body

\* status !== "Approved" && status !== "Rejected"
InvalidStatus(body) ==
  \/ "status" \notin DOMAIN body
  \/ (body.status # Str("Approved") /\ body.status # Str("Rejected"))

\* A decision that un-decides a record when the same status is sent again.
DecideToggle(leave, body) ==
  [status |-> IF leave.status = body.status THEN Str("Pending") ELSE body.status,
   hrComments |-> CommentsOrEmpty(body)] @@ leave

\* leaveApplication.status = status; leaveApplication.hrComments = hrComments || ""
Decide(leave, body) ==
  [status |-> body.status, hrComments |-> CommentsOrEmpty(body)] @@ leave

updateLeaveApplicationStatus(db, rq) ==
  IF ~Privileged(rq.role)
  THEN Out(db, errorHandler(403, "You don't have permission to perform this action."))
  \* LeaveApplication.findById(id) rejects on an id that is no ObjectId.
  ELSE IF ~isValidObjectId(rq.id) \/ rq.fault = "first"
  THEN Out(db, errorHandler(500, "Internal server error"))
  ELSE IF rq.id \notin DOMAIN db.leaves
  THEN Out(db, errorHandler(404, "Leave application not found."))
  ELSE IF InvalidStatus(rq.body)
  THEN Out(db, errorHandler(400, "Invalid action. Please use 'approve' or 'reject'."))
  ELSE
  LET leaveApplication == Decide(db.leaves[rq.id], rq.body)
  IN
  \* leaveApplication.save()
  IF rq.fault = "second"
  THEN Out(db, errorHandler(500, "Internal server error"))
  ELSE Out([db EXCEPT !.leaves = [db.leaves EXCEPT ![rq.id] = leaveApplication]],
           [status |-> 200,
            message |-> <<Str("Leave application "), rq.body.status,
                          Str("d successfully.")>>,
            leaveApplication |-> WithId(rq.id, leaveApplication)])

\* A leave application as the employee-facing workflow files it.
NewLeave(employeeId) == [employeeId |-> employeeId, status |-> Str("Pending")]

(***************************************************************************)
(* Requests.                                                               *)
(***************************************************************************)
Roles == {"hr", "admin", "employee"}

\* Which store call of the handler rejects, if any.  A request that is turned
\* away before the first store call meets no store failure.
FaultsOf(role, faults) == IF role \in {"hr", "admin"} THEN faults ELSE {"none"}

Request(op, role, id, body, fault) ==
  [op |-> op, role |-> role, id |-> id, body |-> body, fault |-> fault]

NoReq == [op |-> "none"]
NoResp == [status |-> 0]

BodyA ==
  [firstName |-> Str("Ann"), lastName |-> Str("Lee"), email |-> Str("ann@hyro"),
   password |-> Str("pw-a"), position |-> Str("Engineer"),
   joiningDate |-> Str("2024-01-15"), role |-> Str("employee"),
   annualCTC |-> Num(1200), monthlyInHand |-> Num(90),
   housingAllowance |-> Num(10), transportAllowance |-> Num(5),
   mealAllowance |-> Num(3), performanceBonus |-> Num(20),
   yearEndBonus |-> Num(30), tax |-> Num(15), healthInsurance |-> Num(4),
   providentFund |-> Num(6)]

BodyB ==
  [firstName |-> Str("Bob"), lastName |-> Str("Roy"), email |-> Str("bob@hyro"),
   password |-> Str("pw-b"), position |-> Str("Analyst"),
   joiningDate |-> Str("2023-06-01"), role |-> Str("hr"),
   annualCTC |-> Num(2400), monthlyInHand |-> Num(180),
   housingAllowance |-> Num(20), transportAllowance |-> Num(8),
   mealAllowance |-> Num(6), performanceBonus |-> Num(40),
   yearEndBonus |-> Num(60), tax |-> Num(30), healthInsurance |-> Num(9),
   providentFund |-> Num(12)]

Without(body, fields) == [f \in DOMAIN body \ fields |-> body[f]]

\* Request bodies of the specification of all handlers together.
AddBodies == {BodyA, Without(BodyA, {"firstName"})}

EditBodies == {BodyB, [BodyB EXCEPT !.tax = Num(0)]}

\* A body with some properties left out, empty or zero.
Defects ==
  UNION {[S -> {"absent", "empty", "zero"}] :
           S \in {T \in SUBSET DOMAIN BodyA : Cardinality(T) <= MaxHoles}}

Defective(body, d) ==
  [f \in DOMAIN body \ {g \in DOMAIN d : d[g] = "absent"} |->
     IF f \notin DOMAIN d THEN body[f]
     ELSE IF d[f] = "empty" THEN Str("") ELSE Num(0)]

\* Request bodies of the add-employee specification.
WideBodies == {Defective(b, d) : b \in {BodyA, BodyB}, d \in Defects}

\* A well-formed id that no EmployeeRecord ever has.
ForeignId == MaxUsers + 1

\* The ids a request can name: those the store has handed out, a well-formed
\* one of no record, a malformed one and none.
EmployeeIds == (1..(nextId - 1)) \cup {ForeignId, BadId, NoId}

LeaveIds == (1..(MaxLeaves + 1)) \cup {BadId}

\* A decision with its comments omitted, empty or given; no status, a status
\* that is no decision, and one in the wrong letter case.
LeaveBodies ==
  {s @@ c : s \in {[status |-> Str("Approved")], [status |-> Str("Rejected")]},
            c \in {NoBody, [hrComments |-> Str("")], [hrComments |-> Str("ok")]}}
  \cup {NoBody, [status |-> Str("Pending")], [status |-> Str("approved"), hrComments |-> Str("ok")]}

(***************************************************************************)
(* Actions: one per handler, applied to one request.                       *)
(***************************************************************************)
Idle == req.op = "none"

Handle(rq, out) ==
  /\ users' = out.db.users
  /\ ctcs' = out.db.ctcs
  /\ leaves' = out.db.leaves
  /\ nextId' = out.db.nextId
  /\ req' = rq
  /\ resp' = out.res
  /\ UNCHANGED <<now, attendance, inflight>>

GetEmployees ==
  /\ Idle
  /\ \E role \in Roles :
       \E fault \in FaultsOf(role, {"none", "first"}) :
         LET rq == Request("getEmployees", role, NoId, NoBody, fault)
         IN Handle(rq, getEmployees(DB, rq))

GetEmployee ==
  /\ Idle
  /\ \E role \in Roles, id \in EmployeeIds :
       \E fault \in FaultsOf(role, {"none", "first"}) :
         LET rq == Request("getEmployee", role, id, NoBody, fault)
         IN Handle(rq, getEmployee(DB, rq))

AddEmployeeFrom(bodies, faults) ==
  /\ Idle
  /\ nextId <= MaxUsers
  /\ \E role \in Roles, body \in bodies :
       \E fault \in FaultsOf(role, faults) :
         LET rq == Request("addEmployee", role, NoId, body, fault)
         IN Handle(rq, addEmployee(DB, rq))

AddEmployee == AddEmployeeFrom(AddBodies, {"none", "first"})

AddEmployeeWide == AddEmployeeFrom(WideBodies, {"none", "first", "second"})

EditEmployee ==
  /\ Idle
  /\ \E role \in Roles, id \in EmployeeIds \ {NoId}, body \in EditBodies :
       \E fault \in FaultsOf(role, {"none", "first", "second"}) :
         LET rq == Request("editEmployee", role, id, body, fault)
         IN Handle(rq, editEmployee(DB, rq))

DeleteEmployee ==
  /\ Idle
  /\ \E role \in Roles, id \in EmployeeIds :
       \E fault \in FaultsOf(role, {"none", "first"}) :
         LET rq == Request("deleteEmployee", role, id, NoBody, fault)
         IN Handle(rq, deleteEmployee(DB, rq))

GetAllLeaveApplications ==
  /\ Idle
  /\ \E role \in Roles :
       \E fault \in FaultsOf(role, {"none", "first"}) :
         LET rq == Request("getAllLeaveApplications", role, NoId, NoBody, fault)
         IN Handle(rq, getAllLeaveApplications(DB, rq))

UpdateLeaveApplicationStatus ==
  /\ Idle
  /\ \E role \in Roles, id \in LeaveIds, body \in LeaveBodies :
       \E fault \in FaultsOf(role, {"none", "first", "second"}) :
         LET rq == Request("updateLeaveApplicationStatus", role, id, body, fault)
         IN Handle(rq, updateLeaveApplicationStatus(DB, rq))

\* The employee-facing workflow (not in this controller) files an application;
\* the applicant is the first employee of the directory.
ApplyLeave ==
  /\ Idle
  /\ Cardinality(DOMAIN leaves) < MaxLeaves
  /\ 1 \in DOMAIN users
  /\ leaves' = ((Cardinality(DOMAIN leaves) + 1) :> NewLeave(1)) @@ leaves
  /\ UNCHANGED <<users, ctcs, nextId, req, resp, now, attendance, inflight>>

\* The response is sent and the request is over.
Deliver ==
  /\ ~Idle
  /\ req' = NoReq
  /\ resp' = NoResp
  /\ UNCHANGED <<users, ctcs, leaves, nextId, now, attendance, inflight>>

Init ==
  /\ users = << >>
  /\ ctcs = << >>
  /\ leaves = << >>
  /\ nextId = 1
  /\ req = NoReq
  /\ resp = NoResp
  /\ now = 0
  /\ attendance = {}
  /\ inflight = << >>

\* All the protected handlers together.
Next ==
  \/ GetEmployees
  \/ GetEmployee
  \/ AddEmployee
  \/ EditEmployee
  \/ DeleteEmployee
  \/ GetAllLeaveApplications
  \/ UpdateLeaveApplicationStatus
  \/ ApplyLeave
  \/ Deliver

Spec == Init /\ [][Next]_vars

\* Employee creation over the full range of request bodies.
NextAdd ==
  \/ AddEmployeeWide
  \/ GetEmployee
  \/ Deliver

SpecAdd == Init /\ [][NextAdd]_vars

(***************************************************************************)
(* Properties of the protected handlers (specification Spec).              *)
(***************************************************************************)
Protected ==
  {"getEmployees", "getEmployee", "addEmployee", "editEmployee", "deleteEmployee",
   "getAllLeaveApplications", "updateLeaveApplicationStatus"}

HrOrAdmin(rq) == rq.role = "hr" \/ rq.role = "admin"

StoreUnchanged == users' = users /\ ctcs' = ctcs /\ leaves' = leaves

\* C1: a request of a protected operation whose role is neither hr nor admin
\* is answered 403 Forbidden and leaves the employee, compensation and leave
\* records exactly as they were, whatever its payload and identifier.
C1_ForbiddenAndNoMutation ==
  [][(Idle /\ req'.op \in Protected /\ ~HrOrAdmin(req'))
       => (resp'.status = 403 /\ StoreUnchanged)]_vars

\* C1 witness: an employee's delete request on an existing EmployeeRecord was
\* answered 403 and the record is still there.
C1_Witness ==
  /\ req.op = "deleteEmployee"
  /\ req.role = "employee"
  /\ req.id \in DOMAIN users
  /\ req.id \in DOMAIN ctcs
  /\ resp.status = 403

\* C6: delete-employee by hr/admin with a well-formed id and a working store:
\* 404 and an unchanged store when no EmployeeRecord has the id; otherwise
\* 200 with a message holding the first and the last name, only that
\* EmployeeRecord removed (compensation and leave records unchanged); an id
\* that has been handed out and has no record never has one again, and
\* get-employee on such an id answers 404.
C6_DeleteEmployee ==
  [][/\ (Idle /\ req'.op = "deleteEmployee" /\ HrOrAdmin(req') /\ req'.id > 0
           /\ req'.fault = "none")
          => IF req'.id \notin DOMAIN users
             THEN resp'.status = 404 /\ StoreUnchanged
             ELSE /\ resp'.status = 200
                  /\ \E i, j \in DOMAIN resp'.message :
                       /\ resp'.message[i] = users[req'.id].firstName
                       /\ resp'.message[j] = users[req'.id].lastName
                  /\ DOMAIN users' = DOMAIN users \ {req'.id}
                  /\ \A u \in DOMAIN users' : users'[u] = users[u]
                  /\ ctcs' = ctcs
                  /\ leaves' = leaves
     /\ \A id \in 1..(nextId - 1) :
          id \notin DOMAIN users => (id \notin DOMAIN users' /\ id < nextId')
     /\ ForeignId \notin DOMAIN users'
     /\ (Idle /\ req'.op = "getEmployee" /\ HrOrAdmin(req') /\ req'.id > 0
           /\ req'.fault = "none" /\ req'.id \notin DOMAIN users)
          => resp'.status = 404]_vars

\* C6 witness: a delete answered 200 took one EmployeeRecord away and left
\* its compensation record, another EmployeeRecord and a leave record behind.
C6_Witness ==
  /\ req.op = "deleteEmployee"
  /\ resp.status = 200
  /\ req.id \notin DOMAIN users
  /\ req.id \in DOMAIN ctcs
  /\ DOMAIN users # {}
  /\ DOMAIN leaves # {}

\* The 15 required properties all hold a value other than "" and 0.
AllFifteenGiven(body) ==
  \A i \in 1..Len(EditRequired) :
    /\ EditRequired[i] \in DOMAIN body
    /\ body[EditRequired[i]] # Str("")
    /\ body[EditRequired[i]] # Num(0)

\* C7: edit-employee by hr/admin with a well-formed id of no EmployeeRecord,
\* all 15 required fields given and a working store answers 404, changes and
\* creates no EmployeeRecord, and still commits the compensation upsert: a
\* CompensationRecord of that id exists afterwards, an EmployeeRecord does not.
C7_EditOrphan ==
  [][(Idle /\ req'.op = "editEmployee" /\ HrOrAdmin(req') /\ req'.id > 0
        /\ req'.id \notin DOMAIN users /\ req'.fault = "none"
        /\ AllFifteenGiven(req'.body))
       => /\ resp'.status = 404
          /\ users' = users
          /\ req'.id \in DOMAIN ctcs'
          /\ \E i \in 1..Len(ctcs'[req'.id]) :
               /\ ctcs'[req'.id][i].employeeId = req'.id
               /\ ctcs'[req'.id][i].annualCTC = req'.body.annualCTC]_vars

\* C7 witness: an edit answered 404 left a compensation record keyed by an id
\* that never had an EmployeeRecord.
C7_Witness ==
  /\ req.op = "editEmployee"
  /\ resp.status = 404
  /\ req.id = ForeignId
  /\ req.id \in DOMAIN ctcs
  /\ req.id \notin DOMAIN users

ValidDecision(body) ==
  /\ "status" \in DOMAIN body
  /\ (body.status = Str("Approved") \/ body.status = Str("Rejected"))

\* C8: update-leave-status(id, s, c) by hr/admin on an existing record, in any
\* current status, with s Approved or Rejected and any comments c (or none),
\* succeeds, and applying it a second time succeeds too and leaves the record
\* with the same status and hrComments as the first application did.
C8_UpdateIdempotent ==
  (/\ req.op = "updateLeaveApplicationStatus"
   /\ HrOrAdmin(req)
   /\ req.fault = "none"
   /\ req.id \in DOMAIN leaves
   /\ ValidDecision(req.body))
    => /\ resp.status = 200
       /\ LET again == updateLeaveApplicationStatus(DB, req)
          IN /\ again.res.status = 200
             /\ again.db.leaves[req.id].status = leaves[req.id].status
             /\ again.db.leaves[req.id].hrComments = leaves[req.id].hrComments
             /\ again.res.leaveApplication = resp.leaveApplication

\* C8 witness: a successful Rejected-with-comments decision is in the store.
C8_Witness ==
  /\ req.op = "updateLeaveApplicationStatus"
  /\ resp.status = 200
  /\ req.id \in DOMAIN leaves
  /\ leaves[req.id].status = Str("Rejected")
  /\ leaves[req.id].hrComments = Str("ok")

\* C10: a leave record stays in the store, and its status and hrComments
\* change only in a step that is a successful (200) update-leave-status on it
\* by hr/admin with status Approved or Rejected, which becomes its status; an
\* update answered 403, 404 or 400 changes no leave record; a Pending record
\* moves to Approved or Rejected only, and a record that is not Pending is
\* never Pending again.
C10_LeaveStateMachine ==
  [][/\ \A l \in DOMAIN leaves :
          /\ l \in DOMAIN leaves'
          /\ (leaves'[l] # leaves[l]) =>
               /\ Idle
               /\ req'.op = "updateLeaveApplicationStatus"
               /\ req'.id = l
               /\ HrOrAdmin(req')
               /\ ValidDecision(req'.body)
               /\ resp'.status = 200
               /\ leaves'[l].status = req'.body.status
          /\ leaves'[l].status \in {Str("Pending"), Str("Approved"), Str("Rejected")}
          /\ (leaves[l].status # Str("Pending")) => (leaves'[l].status # Str("Pending"))
     /\ (Idle /\ req'.op = "updateLeaveApplicationStatus"
           /\ resp'.status \in {403, 404, 400})
          => leaves' = leaves]_vars

\* C10 witness: an update with status "Pending" on a Rejected record was
\* answered 400 and the record is still Rejected.
C10_Witness ==
  /\ req.op = "updateLeaveApplicationStatus"
  /\ resp.status = 400
  /\ req.id \in DOMAIN leaves
  /\ "status" \in DOMAIN req.body
  /\ req.body.status = Str("Pending")
  /\ leaves[req.id].status = Str("Rejected")

(***************************************************************************)
(* Properties of add-employee (specification SpecAdd).                     *)
(***************************************************************************)
\* The required properties a body leaves out: absent, or the empty string.  A
\* numeric zero is a value the caller supplied.
LeftOut(body) ==
  {AddRequired[i] : i \in {j \in 1..Len(AddRequired) :
                             \/ AddRequired[j] \notin DOMAIN body
                             \/ body[AddRequired[j]] = Str("")}}

\* C2: an add-employee call by hr/admin whose body leaves out at least one of
\* the 14 required fields is answered 400 with a message that names exactly
\* the fields left out (no supplied field, and every missing one), and it
\* creates no EmployeeRecord and no CompensationRecord.
C2_MissingFieldsNamedExactly ==
  [][(Idle /\ req'.op = "addEmployee" /\ HrOrAdmin(req') /\ LeftOut(req'.body) # {})
       => /\ resp'.status = 400
          /\ {resp'.missing[i] : i \in 1..Len(resp'.missing)} = LeftOut(req'.body)
          /\ users' = users
          /\ ctcs' = ctcs]_vars

\* C3: after a successful add-employee, get-employee by hr on the returned id
\* answers 200 with a record whose visible fields equal the submitted ones,
\* and the credential secret is in neither response.
C3_AddThenGetRoundTrip ==
  /\ (req.op = "addEmployee" /\ resp.status = 201)
       => LET got == getEmployee(DB, Request("getEmployee", "hr", resp.user.id,
                                             NoBody, "none")).res
          IN /\ got.status = 200
             /\ \A f \in {"firstName", "lastName", "email", "position", "joiningDate"}
                           \cap DOMAIN req.body :
                  f \in DOMAIN got.body /\ got.body[f] = req.body[f]
             /\ "password" \notin DOMAIN resp.user
             /\ "password" \notin DOMAIN resp.employeeCTC
             /\ "password" \notin DOMAIN got.body
  /\ (req.op = "getEmployee" /\ resp.status = 200)
       => "password" \notin DOMAIN resp.body

\* C4: an add-employee call, whatever its answer and whichever store write
\* fails, either creates nothing, or creates one EmployeeRecord together with
\* one CompensationRecord keyed to it whose effectiveDate is the joiningDate.
C4_AddIsAtomic ==
  [][(Idle /\ req'.op = "addEmployee")
       => LET new == DOMAIN users' \ DOMAIN users
          IN \/ (new = {} /\ users' = users /\ ctcs' = ctcs)
             \/ \E u \in new :
                  /\ new = {u}
                  /\ u \in DOMAIN ctcs'
                  /\ Len(ctcs'[u]) = 1
                  /\ ctcs'[u][1].employeeId = u
                  /\ ("effectiveDate" \in DOMAIN ctcs'[u][1])
                       <=> ("joiningDate" \in DOMAIN users'[u])
                  /\ ("joiningDate" \in DOMAIN users'[u])
                       => ctcs'[u][1].effectiveDate = users'[u].joiningDate]_vars

(***************************************************************************)
(* Attendance: dates are whole hours of local time counted from            *)
(* 2023-01-01 00:00, a Sunday.                                             *)
(***************************************************************************)
Years == 2023..(2022 + NumYears)

IsLeap(y) == (y % 4 = 0 /\ y % 100 # 0) \/ y % 400 = 0

DaysInYear(y) == IF IsLeap(y) THEN 366 ELSE 365

\* Months are numbered from 0, as Date numbers them.
DaysInMonth(y, m) ==
  IF m = 1 THEN (IF IsLeap(y) THEN 29 ELSE 28)
  ELSE IF m \in {3, 5, 8, 10} THEN 30 ELSE 31

RECURSIVE DaysBeforeYear(_)
DaysBeforeYear(y) ==
  IF y <= 2023 THEN 0 ELSE DaysBeforeYear(y - 1) + DaysInYear(y - 1)

RECURSIVE DaysBeforeMonth(_, _)
DaysBeforeMonth(y, m) ==
  IF m = 0 THEN 0 ELSE DaysBeforeMonth(y, m - 1) + DaysInMonth(y, m - 1)

\* new Date(y, m, d): local midnight; a day number below 1 runs back into the
\* month before.
NewDate(y, m, d) == 24 * (DaysBeforeYear(y) + DaysBeforeMonth(y, m) + (d - 1))

DayNumber(t) == t \div 24

getFullYear(t) ==
  CHOOSE y \in Years :
    DaysBeforeYear(y) <= DayNumber(t) /\ DayNumber(t) < DaysBeforeYear(y) + DaysInYear(y)

DayOfYear(t) == DayNumber(t) - DaysBeforeYear(getFullYear(t))

getMonth(t) ==
  LET y == getFullYear(t)
      n == DayNumber(t) - DaysBeforeYear(y)
  IN CHOOSE m \in 0..11 :
       DaysBeforeMonth(y, m) <= n /\ n < DaysBeforeMonth(y, m) + DaysInMonth(y, m)

getDate(t) == DayOfYear(t) - DaysBeforeMonth(getFullYear(t), getMonth(t)) + 1

\* 0 is Sunday.
getDay(t) == DayNumber(t) % 7

\* date.setHours(0, 0, 0, 0): the value the Date object holds afterwards, which
\* is also the value the call returns.
setHours0(t) == NewDate(getFullYear(t), getMonth(t), getDate(t))

\* The local `now` is one Date object: in the "today"/default branch setHours
\* moves it to midnight before `endDate: now` reads it.
getDateRange(period, t) ==
  IF period = Str("weekly")
    THEN [startDate |-> NewDate(getFullYear(t), getMonth(t), getDate(t) - getDay(t)),
          endDate |-> t]
  ELSE IF period = Str("monthly")
    THEN [startDate |-> NewDate(getFullYear(t), getMonth(t), 1), endDate |-> t]
  ELSE IF period = Str("yearly")
    THEN [startDate |-> NewDate(getFullYear(t), 0, 1), endDate |-> t]
  ELSE [startDate |-> setHours0(t), endDate |-> setHours0(t)]

\* req.query.period || "today"
PeriodOf(query) == IF NotProvided(query, "period") THEN Str("today") ELSE query.period

\* record.duration || 0
DurationOf(record) == IF "duration" \in DOMAIN record THEN record.duration ELSE 0

RECURSIVE SumDurations(_)
SumDurations(S) ==
  IF S = {} THEN 0
  ELSE LET r == CHOOSE x \in S : TRUE
       IN DurationOf(r) + SumDurations(S \ {r})

totalWorkingHours(period) ==
  IF period = Str("weekly") THEN 5 * 8
  ELSE IF period = Str("monthly") THEN 20 * 8
  ELSE IF period = Str("yearly") THEN 240 * 8
  ELSE 8

\* rq.id is req.query.userId, rq.body the rest of the query string; t is the
\* clock when the request is handled.
getAttendance(att, rq, t) ==
  LET period == PeriodOf(rq.body)
      range == getDateRange(period, t)
      attendanceData == {r \in att : /\ r.userId = rq.id
                                     /\ r.date >= range.startDate
                                     /\ r.date <= range.endDate}
  IN IF rq.fault = "first"
       THEN [status |-> 500, error |-> "Failed to retrieve attendance data"]
     ELSE [status |-> 200,
           attendanceData |-> attendanceData,
           workedHours |-> SumDurations(attendanceData),
           totalWorkingHours |-> totalWorkingHours(period)]

\* The clock readings of the model: every day of the years, at three hours.
Instants == {24 * d + h : d \in 0..(DaysBeforeYear(2022 + NumYears) + DaysInYear(2022 + NumYears) - 1),
                          h \in {0, 9, 23}}

\* Entries of employee 1 around a clock reading: late the day before, at
\* midnight, one hour into the day, at the reading and one hour after it.
EntriesAround(t) ==
  {e \in [userId : {1}, date : {t - (t % 24) - 1, t - (t % 24), t - (t % 24) + 1, t, t + 1},
          duration : {4}]
         \cup [userId : {1}, date : {t}] : e.date >= 0}

Queries ==
  {NoBody} \cup {[period |-> Str(p)] : p \in {"today", "weekly", "monthly", "yearly", "daily"}}

GetAttendance ==
  /\ Idle
  /\ \E role \in {"employee"}, userId \in {1, 2}, query \in Queries,
        fault \in {"none", "first"} :
       LET rq == Request("getAttendance", role, userId, query, fault)
       IN /\ req' = rq
          /\ resp' = getAttendance(attendance, rq, now)
  /\ UNCHANGED <<users, ctcs, leaves, nextId, now, attendance, inflight>>

InitPeriod ==
  /\ users = << >>
  /\ ctcs = << >>
  /\ leaves = << >>
  /\ nextId = 1
  /\ req = NoReq
  /\ resp = NoResp
  /\ now \in Instants
  /\ attendance \in {S \in SUBSET EntriesAround(now) : Cardinality(S) <= MaxEntries}
  /\ inflight = << >>

NextPeriod == GetAttendance \/ Deliver

SpecPeriod == InitPeriod /\ [][NextPeriod]_vars

\* The start of the period a tag names, from the calendar.
MostRecent(S) == CHOOSE s \in S : \A x \in S : x <= s

PeriodStart(period, t) ==
  IF period = Str("weekly")
    THEN MostRecent({s \in {t - (t % 24) - 24 * k : k \in 0..6} : s % (24 * 7) = 0})
  ELSE IF period = Str("monthly")
    THEN 24 * (DaysBeforeYear(getFullYear(t)) + DaysBeforeMonth(getFullYear(t), getMonth(t)))
  ELSE IF period = Str("yearly")
    THEN 24 * DaysBeforeYear(getFullYear(t))
  ELSE t - (t % 24)

\* C5: for every period tag (and none) the resolved window ends at the
\* current instant and starts at the start of the period; an entry of the
\* current day dated after midnight and not after the current instant is in
\* the answer for "today".
C5_PeriodWindow ==
  /\ \A query \in Queries :
       LET range == getDateRange(PeriodOf(query), now)
       IN /\ range.endDate = now
          /\ range.startDate = PeriodStart(PeriodOf(query), now)
  /\ (req.op = "getAttendance" /\ resp.status = 200
        /\ PeriodOf(req.body) \notin {Str("weekly"), Str("monthly"), Str("yearly")})
       => \A e \in attendance :
            (e.userId = req.id /\ e.date > now - (now % 24) /\ e.date <= now)
              => e \in resp.attendanceData

(***************************************************************************)
(* Requests in flight together.  The server runs a handler until it awaits *)
(* a store call and then runs another; each store call is one step.        *)
(* findOneAndUpdate with upsert is two steps at the store, the query and   *)
(* the write, and nothing in the schema makes employeeId unique.           *)
(***************************************************************************)
Slots == 1..MaxInflight

IdleProc == [pc |-> "idle"]

Step(s, proc) == inflight' = [inflight EXCEPT ![s] = proc]

\* editEmployee up to Promise.all: the request has passed the role, id and
\* required-field checks and both store operations are issued.
EditBegin(s) ==
  /\ inflight[s].pc = "idle"
  /\ \E id \in (1..(nextId - 1)) \cup {ForeignId} :
       LET rq == Request("editEmployee", "hr", id, BodyB, "none")
       IN /\ Privileged(rq.role)
          /\ isValidObjectId(rq.id)
          /\ Len(missingFields(EditRequired, rq.body)) = 0
          /\ Step(s, [pc |-> "edit", rq |-> rq, user |-> "issued", ctc |-> "issued",
                      i |-> 0, ok |-> TRUE, found |-> FALSE])
  /\ UNCHANGED <<users, ctcs, leaves, nextId, req, resp, now, attendance>>

\* User.findByIdAndUpdate at the store.
EditUserUpdate(s) ==
  /\ inflight[s].pc = "edit"
  /\ inflight[s].user = "issued"
  /\ LET upd == UserFindByIdAndUpdate(DB, inflight[s].rq.id,
                                      EditUserSet(inflight[s].rq.body))
     IN /\ users' = upd.db.users
        /\ Step(s, [inflight[s] EXCEPT !.user = "done", !.ok = upd.ok,
                                       !.found = upd.found])
  /\ UNCHANGED <<ctcs, leaves, nextId, req, resp, now, attendance>>

\* The query of employeeCTCModel.findOneAndUpdate at the store.
EditCtcMatch(s) ==
  /\ inflight[s].pc = "edit"
  /\ inflight[s].ctc = "issued"
  /\ Step(s, [inflight[s] EXCEPT !.ctc = "matched",
                                 !.i = CtcMatch(ctcs, inflight[s].rq.id)])
  /\ UNCHANGED <<users, ctcs, leaves, nextId, req, resp, now, attendance>>

\* Its write: the update of the match, or the insert when there was none.
EditCtcWrite(s) ==
  /\ inflight[s].pc = "edit"
  /\ inflight[s].ctc = "matched"
  /\ ctcs' = CtcUpsertWrite(ctcs, inflight[s].i, inflight[s].rq.id,
                            CtcFields(inflight[s].rq.body))
  /\ Step(s, [inflight[s] EXCEPT !.ctc = "done"])
  /\ UNCHANGED <<users, leaves, nextId, req, resp, now, attendance>>

\* Promise.all has settled: the answer of editEmployee.
EditRespond(s) ==
  /\ Idle
  /\ inflight[s].pc = "edit"
  /\ inflight[s].user = "done"
  /\ inflight[s].ctc = "done"
  /\ req' = inflight[s].rq
  /\ resp' = IF ~inflight[s].ok THEN errorHandler(500, "Internal Server Error")
             ELSE IF ~inflight[s].found THEN errorHandler(404, "Employee not found")
             ELSE [status |-> 200, message |-> "Employee data updated successfully"]
  /\ Step(s, IdleProc)
  /\ UNCHANGED <<users, ctcs, leaves, nextId, now, attendance>>

\* addEmployee up to bcrypt.hash: the checks have passed.
AddBegin(s) ==
  /\ inflight[s].pc = "idle"
  /\ nextId <= MaxHires
  /\ LET rq == Request("addEmployee", "hr", NoId, BodyA, "none")
     IN /\ Privileged(rq.role)
        /\ Len(missingFields(AddRequired, rq.body)) = 0
        /\ CanHash(rq.body)
        /\ Step(s, [pc |-> "add", rq |-> rq, at |-> "hashed", id |-> NoId])
  /\ UNCHANGED <<users, ctcs, leaves, nextId, req, resp, now, attendance>>

\* User.create at the store.
AddCreateUser(s) ==
  /\ inflight[s].pc = "add"
  /\ inflight[s].at = "hashed"
  /\ LET created == UserCreate(DB, AddUserDoc(inflight[s].rq.body))
     IN /\ users' = created.db.users
        /\ nextId' = created.db.nextId
        /\ Step(s, [inflight[s] EXCEPT !.at = IF created.ok THEN "user" ELSE "failed",
                                       !.id = created.id])
  /\ UNCHANGED <<ctcs, leaves, req, resp, now, attendance>>

\* employeeCTCModel.create at the store.
AddCreateCtc(s) ==
  /\ inflight[s].pc = "add"
  /\ inflight[s].at = "user"
  /\ ctcs' = CtcInsert(ctcs, AddCtcDoc(inflight[s].rq.body, inflight[s].id))
  /\ Step(s, [inflight[s] EXCEPT !.at = "ctc"])
  /\ UNCHANGED <<users, leaves, nextId, req, resp, now, attendance>>

\* The answer of addEmployee.
AddRespond(s) ==
  /\ Idle
  /\ inflight[s].pc = "add"
  /\ inflight[s].at \in {"ctc", "failed"}
  /\ req' = inflight[s].rq
  /\ resp' = IF inflight[s].at = "failed"
             THEN errorHandler(500, "Internal Server Error")
             ELSE [status |-> 201, message |-> "Employee added successfully!",
                   id |-> inflight[s].id]
  /\ Step(s, IdleProc)
  /\ UNCHANGED <<users, ctcs, leaves, nextId, now, attendance>>

\* deleteEmployee makes one store call.
DeleteNow ==
  /\ Idle
  /\ \E id \in 1..(nextId - 1) :
       LET rq == Request("deleteEmployee", "hr", id, NoBody, "none")
           out == deleteEmployee(DB, rq)
       IN /\ users' = out.db.users
          /\ req' = rq
          /\ resp' = out.res
  /\ UNCHANGED <<ctcs, leaves, nextId, now, attendance, inflight>>

InitConc ==
  /\ users = << >>
  /\ ctcs = << >>
  /\ leaves = << >>
  /\ nextId = 1
  /\ req = NoReq
  /\ resp = NoResp
  /\ now = 0
  /\ attendance = {}
  /\ inflight = [s \in Slots |-> IdleProc]

NextConc ==
  \/ \E s \in Slots : EditBegin(s)
  \/ \E s \in Slots : EditUserUpdate(s)
  \/ \E s \in Slots : EditCtcMatch(s)
  \/ \E s \in Slots : EditCtcWrite(s)
  \/ \E s \in Slots : EditRespond(s)
  \/ \E s \in Slots : AddBegin(s)
  \/ \E s \in Slots : AddCreateUser(s)
  \/ \E s \in Slots : AddCreateCtc(s)
  \/ \E s \in Slots : AddRespond(s)
  \/ DeleteNow
  \/ Deliver

SpecConc == InitConc /\ [][NextConc]_vars

\* C9: in every state reachable by interleaved add-employee, edit-employee
\* and delete-employee requests, the store holds at most one
\* CompensationRecord per employeeId.
C9_SingleCtcPerEmployee == \A e \in DOMAIN ctcs : Len(ctcs[e]) <= 1

====
